---- MODULE Spec2Model ----
(***************************************************************************)
(* Model of playwright_runner/twex_stock_filter.py: the TPEx screening run *)
(* (roster fetch, concurrent per-instrument pipelines in a thread pool,    *)
(* partition, sort and emission of the two CSV tables).                    *)
(*                                                                         *)
(* Units: prices are integers in hundredths (105.00 -> 10500), volumes are *)
(* integers in lots, RSI is in hundredths.  Strings are sequences of       *)
(* character codes, so that string comparison is the code-point            *)
(* lexicographic comparison Python and pandas apply to str objects.        *)
(***************************************************************************)
EXTENDS Integers, Sequences, FiniteSets, TLC

\* ---------------------------------------------------------------- bounds
\* Longest roster the provider returns in the model.
MaxRoster == 3
\* Width of the worker pool (max_workers, 20 in the source), scaled down to
\* the roster bound so that the pool is actually saturated.
PoolSize == 2

\* ------------------------------------------------------------- constants
MinVolume == 200
MinRows == 20
\* get_latest_trade_date(year, month): the day number of the last weekday
\* of the target month in the model's calendar (days 1..15 are the previous
\* month, days 16..26 the target month, day 26 is a Saturday).
target_date == 25
FirstDayOfTargetMonth == 16

\* the missing value of a float column (a number no price, volume or
\* average of the model takes)
NaN == -1000000000

\* ------------------------------------------------------- character codes
ChDot == 46
ChComma == 44
ChSpace == 32
ChMinus == 45
ChZero == 48
\* U+689D, U+4EF6: the two characters of the rule label
ChTiao == 26781
ChJian == 20214

StrInf == <<105, 110, 102>>
StrNan == <<110, 97, 110>>
StrNA == <<78, 47, 65>>
StrIndustry == <<73, 67>>

\* ---------------------------------------------------------- arithmetic
\* the element of a one-element set; The({F(v) : v \in {e}}) is F applied
\* to the value of e
The(S) == CHOOSE e \in S : TRUE

Abs(x) == IF x < 0 THEN -x ELSE x

Max2(a, b) == IF a >= b THEN a ELSE b

\* round(n / d) to the nearest integer, ties to even (numpy / pandas round
\* and Python's format), for d > 0.
RoundHalfEven(n, d) ==
    LET q == n \div d
        r == n % d
    IN IF 2 * r < d THEN q
       ELSE IF 2 * r > d THEN q + 1
       ELSE IF q % 2 = 0 THEN q ELSE q + 1

RECURSIVE DecStr(_)
\* decimal digits of a natural number
DecStr(n) ==
    IF n < 10 THEN <<ChZero + n>>
    ELSE Append(DecStr(n \div 10), ChZero + (n % 10))

\* f"{num/den:.2f}" for a float64 quotient (division by zero gives inf or
\* nan since the operands are numpy scalars).
Format2f(num, den) ==
    IF den = 0
    THEN IF num = 0 THEN StrNan
         ELSE IF num > 0 THEN StrInf ELSE <<ChMinus>> \o StrInf
    ELSE LET neg == (num < 0) # (den < 0)
             body == The({DecStr(h \div 100) \o
                            <<ChDot, ChZero + ((h % 100) \div 10), ChZero + (h % 10)>> :
                          h \in {RoundHalfEven(Abs(num) * 100, Abs(den))}})
         IN IF neg /\ num # 0 THEN <<ChMinus>> \o body ELSE body

\* a < b for Python str objects: code-point lexicographic order
StrLT(a, b) ==
    \E k \in 1..Len(b) :
        /\ k <= Len(a) + 1
        /\ \A j \in 1..(k - 1) : a[j] = b[j]
        /\ (k = Len(a) + 1 \/ a[k] < b[k])

\* sub in s, for Python str objects
StrContains(s, sub) ==
    \E k \in 0..(Len(s) - Len(sub)) :
        \A j \in 1..Len(sub) : s[k + j] = sub[j]

RECURSIVE StrJoin(_, _)
\* sep.join(parts)
StrJoin(sep, parts) ==
    IF parts = <<>> THEN <<>>
    ELSE IF Len(parts) = 1 THEN parts[1]
    ELSE parts[1] \o sep \o StrJoin(sep, Tail(parts))

\* the label the code appends for rule k
RuleLabel(k) == <<ChTiao, ChJian, ChZero + k>>


IsNa(v) == v = NaN

\* ma10_minus_ma5_pct (line 278) as the fraction num / den * 100 with
\* den > 0, or +infinity.
GapPct(latest) ==
    IF ~IsNa(latest.MA5) /\ latest.MA5 # 0
    THEN IF latest.MA5 > 0
         THEN [inf |-> FALSE, num |-> latest.MA10 - latest.MA5, den |-> latest.MA5]
         ELSE [inf |-> FALSE, num |-> latest.MA5 - latest.MA10, den |-> -latest.MA5]
    ELSE [inf |-> TRUE, num |-> 0, den |-> 1]

\* 0 <= ma10_minus_ma5_pct < 1
GapInBand(g) == ~g.inf /\ g.num >= 0 /\ g.num * 100 < g.den

GapLT(g, h) ==
    IF g.inf THEN FALSE
    ELSE IF h.inf THEN TRUE
    ELSE g.num * h.den < h.num * g.den

GapEQ(g, h) == ~GapLT(g, h) /\ ~GapLT(h, g)

\* line 408: by ma10_minus_ma5 ascending, then by the volume_multiplier
\* column (str objects) descending
OthersBefore(a, b) ==
    \/ GapLT(a.ma10_minus_ma5, b.ma10_minus_ma5)
    \/ /\ GapEQ(a.ma10_minus_ma5, b.ma10_minus_ma5)
       /\ StrLT(b.volume_multiplier, a.volume_multiplier)

\* line 429: by the volume_multiplier column (str objects) descending
Condition5Before(a, b) == StrLT(b.volume_multiplier, a.volume_multiplier)

\* the strict order sort_values(by) compares two rows with
RowBefore(by, a, b) ==
    CASE by = "date" -> a.date < b.date
      [] by = "others" -> OthersBefore(a, b)
      [] by = "condition5" -> Condition5Before(a, b)

\* the sorted sequence t with the row x placed behind every row that is not
\* after it
InsertSorted(by, t, x) ==
    LET later == {j \in 1..Len(t) : RowBefore(by, x, t[j])}
        at == IF later = {} THEN Len(t) + 1
              ELSE CHOOSE j \in later : \A q \in later : j <= q
    IN SubSeq(t, 1, at - 1) \o <<x>> \o SubSeq(t, at, Len(t))

\* DataFrame.sort_values on a short frame: a stable sort
StableSort(by, s) ==
    LET Sorted(v) ==
            LET G[k \in 0..Len(v)] ==
                    IF k = 0 THEN <<>>
                    ELSE The({InsertSorted(by, t, v[k]) : t \in {G[k - 1]}})
            IN G[Len(v)]
    IN The({Sorted(v) : v \in {s}})

\* ------------------------------------------------------ provider responses
\* What the exchange data provider answers to one monthly history request.
\*   "ok"             stat ok, a table with the month's rows
\*   "timeout"        requests raises a RequestException
\*   "stat_fail"      a body whose stat is not "ok"
\*   "empty"          stat ok, a table without rows
\*   "missing_fields" stat ok, a table lacking a required column
\*   "no_tables"      stat ok, a body without a usable "tables" entry
HistoryKinds ==
    {"ok", "timeout", "stat_fail", "empty", "missing_fields", "no_tables"}

\* rows of a frame ordered by date (sort_values on the date column)
SortByDate(df) == StableSort("date", df)

\* drop_duplicates(subset = date): the first row of every date is kept
DropDuplicates(df) ==
    LET Kept(v) ==
            LET F[k \in 0..Len(v)] ==
                    IF k = 0 THEN <<>>
                    ELSE IF \A j \in 1..(k - 1) : v[j].date # v[k].date
                         THEN Append(F[k - 1], v[k])
                         ELSE F[k - 1]
            IN F[Len(v)]
    IN The({Kept(v) : v \in {df}})

\* fetch_tpex_history(stock_id, year, month) applied to the provider's
\* answer: exc is TRUE when an exception leaves the function; otherwise
\* none tells that (None, reason) is returned and df is the frame returned.
fetch_tpex_history(resp) ==
    IF resp.kind = "timeout" THEN [exc |-> FALSE, none |-> TRUE, df |-> <<>>]
    ELSE IF resp.kind = "stat_fail" THEN [exc |-> FALSE, none |-> TRUE, df |-> <<>>]
    ELSE IF resp.kind = "no_tables" THEN [exc |-> TRUE, none |-> TRUE, df |-> <<>>]
    ELSE IF resp.kind = "empty" THEN [exc |-> FALSE, none |-> TRUE, df |-> <<>>]
    ELSE IF resp.kind = "missing_fields" THEN [exc |-> FALSE, none |-> TRUE, df |-> <<>>]
    ELSE LET parsed == SelectSeq(resp.rows,
                          LAMBDA b : ~IsNa(b.date) /\ ~IsNa(b.close)
                                     /\ ~IsNa(b.open) /\ ~IsNa(b.vol))
             df == SortByDate(parsed)
         IN IF df = <<>> THEN [exc |-> FALSE, none |-> TRUE, df |-> <<>>]
            ELSE [exc |-> FALSE, none |-> FALSE, df |-> df]

\* fetch_industry_chain_info(stock_code): every failure is caught and the
\* N/A defaults are returned.
fetch_industry_chain_info(kind) ==
    IF kind = "ok"
    THEN [industry |-> StrIndustry, industry_chain |-> StrIndustry]
    ELSE [industry |-> StrNA, industry_chain |-> StrNA]

\* ---------------------------------------------------------- indicators
\* Series.rolling(window = w).mean().round(...) at row p of df, NaN while
\* the window is not full.  Prices are in hundredths, so rounding to an
\* integer is round(2); volumes are rounded by round(0).
RollingMean(df, field, w, p) ==
    IF p < w THEN NaN
    ELSE LET S[k \in 0..w] ==
                 IF k = 0 THEN 0 ELSE S[k - 1] + df[p - w + k][field]
         IN RoundHalfEven(S[w], w)

\* the indicator-augmented row p of df (lines 259-264); the RSI column is
\* the value calculate_rsi gives for the row, carried by the bar.
IndicatorRow(df, p) ==
    [close |-> df[p].close, open |-> df[p].open, vol |-> df[p].vol,
     MA5 |-> RollingMean(df, "close", 5, p),
     MA10 |-> RollingMean(df, "close", 10, p),
     MA20 |-> RollingMean(df, "close", 20, p),
     Volume_MA5 |-> RollingMean(df, "vol", 5, p),
     Volume_MA10 |-> RollingMean(df, "vol", 10, p),
     RSI |-> df[p].rsi]

\* ------------------------------------------------- condition evaluator
\* the gate with the limit itself excluded
VolumeTooLow_Inclusive(latest) == IsNa(latest.vol) \/ latest.vol <= MinVolume

\* the minimum-volume gate of line 274: TRUE when the instrument is dropped
VolumeTooLow(latest) == IsNa(latest.vol) \/ latest.vol < MinVolume

\* the test of lines 286-293 on one scanned day
RedBreakout(day) ==
    /\ ~(IsNa(day.vol) \/ IsNa(day.Volume_MA5) \/ IsNa(day.Volume_MA10)
         \/ IsNa(day.close) \/ IsNa(day.open))
    /\ day.close > day.open
    /\ 2 * day.vol >= 3 * day.Volume_MA5
    /\ 2 * day.vol >= 3 * day.Volume_MA10

\* lines 282-299: scan of the last three sessions, most recent first; the
\* multiplier is the fraction num / den
volume_condition_1_4(df) ==
    LET n == Len(df)
        hits == {i \in 0..2 : RedBreakout(IndicatorRow(df, n - i))}
    IN IF hits = {}
       THEN [met |-> FALSE, num |-> 0, den |-> 1]
       ELSE LET i == CHOOSE h \in hits : \A g \in hits : h <= g
                day == IndicatorRow(df, n - i)
            IN [met |-> TRUE, num |-> day.vol,
                den |-> Max2(day.Volume_MA5, day.Volume_MA10)]

\* lines 303-309: the latest session only
volume_condition_5(latest) ==
    IF /\ ~IsNa(latest.vol) /\ ~IsNa(latest.Volume_MA5) /\ ~IsNa(latest.Volume_MA10)
       /\ latest.vol >= latest.Volume_MA5 * 2
       /\ latest.vol >= latest.Volume_MA10 * 2
    THEN [met |-> TRUE, num |-> latest.vol,
          den |-> Max2(latest.Volume_MA5, latest.Volume_MA10)]
    ELSE [met |-> FALSE, num |-> 0, den |-> 1]

\* lines 314-320
Rule1(latest, one_day_ago, sigA) ==
    /\ sigA
    /\ GapInBand(GapPct(latest))
    /\ ~IsNa(latest.MA5) /\ ~IsNa(latest.MA10) /\ ~IsNa(latest.MA20)
    /\ latest.MA5 < latest.MA10 /\ latest.MA10 < latest.MA20
    /\ ~IsNa(one_day_ago.MA5)
    /\ latest.MA5 > one_day_ago.MA5
    /\ ~IsNa(latest.RSI) /\ latest.RSI >= 4900

\* lines 324-331
Rule2(latest, one_day_ago, sigA) ==
    /\ sigA
    /\ GapInBand(GapPct(latest))
    /\ ~IsNa(latest.MA5) /\ ~IsNa(latest.MA10) /\ ~IsNa(latest.MA20)
    /\ latest.MA5 < latest.MA10 /\ latest.MA10 < latest.MA20
    /\ ~IsNa(one_day_ago.MA5)
    /\ latest.MA5 > one_day_ago.MA5
    /\ ~IsNa(latest.RSI) /\ ~IsNa(one_day_ago.RSI)
    /\ latest.RSI < 4900 /\ latest.RSI > one_day_ago.RSI

\* lines 335-341
Rule3(latest, one_day_ago, sigA) ==
    /\ sigA
    /\ ~IsNa(latest.MA5) /\ ~IsNa(latest.MA10) /\ ~IsNa(latest.MA20)
    /\ latest.MA5 > latest.MA10
    /\ latest.MA10 < latest.MA5 /\ latest.MA5 < latest.MA20
    /\ ~IsNa(one_day_ago.MA5) /\ ~IsNa(one_day_ago.MA10)
    /\ one_day_ago.MA5 <= one_day_ago.MA10
    /\ ~IsNa(latest.RSI) /\ latest.RSI >= 5000

\* lines 345-348
Rule4(latest, one_day_ago, sigA) ==
    /\ sigA
    /\ ~IsNa(latest.MA5) /\ ~IsNa(latest.MA10) /\ ~IsNa(latest.MA20)
    /\ latest.MA10 < latest.MA5 /\ latest.MA5 < latest.MA20
    /\ ~IsNa(latest.RSI) /\ latest.RSI >= 5000

\* rule 5 without its trend test
Rule5_VolumeOnly(latest, sigB) == sigB

\* lines 352-354
Rule5(latest, sigB) ==
    /\ sigB
    /\ ~IsNa(latest.MA5) /\ ~IsNa(latest.MA20)
    /\ latest.MA5 > latest.MA20

\* lines 311-355: the rule numbers appended to conditions_met, in order
conditions_met(df) ==
    LET n == Len(df)
        latest == IndicatorRow(df, n)
        one_day_ago == IndicatorRow(df, n - 1)
        sigA == volume_condition_1_4(df).met
        sigB == volume_condition_5(latest).met
        fired(k) == CASE k = 1 -> Rule1(latest, one_day_ago, sigA)
                      [] k = 2 -> Rule2(latest, one_day_ago, sigA)
                      [] k = 3 -> Rule3(latest, one_day_ago, sigA)
                      [] k = 4 -> Rule4(latest, one_day_ago, sigA)
                      [] k = 5 -> Rule5(latest, sigB)
    IN SelectSeq(<<1, 2, 3, 4, 5>>, fired)

\* the multiplier taken over the smaller of the two volume averages
volume_multiplier_min(df, rules) ==
    LET a == volume_condition_1_4(df)
        b == volume_condition_5(IndicatorRow(df, Len(df)))
        day == IndicatorRow(df, Len(df))
        lo == IF day.Volume_MA5 < day.Volume_MA10
              THEN day.Volume_MA5 ELSE day.Volume_MA10
    IN IF \E k \in 1..Len(rules) : rules[k] = 5
       THEN Format2f(b.num, lo)
       ELSE Format2f(a.num, lo)

\* lines 372-375: the formatted volume_multiplier column
volume_multiplier(df, rules) ==
    LET a == volume_condition_1_4(df)
        b == volume_condition_5(IndicatorRow(df, Len(df)))
    IN IF \E k \in 1..Len(rules) : rules[k] = 5
       THEN Format2f(b.num, b.den)
       ELSE Format2f(a.num, a.den)

\* ------------------------------------------------ per-instrument pipeline
\* The provider's answers for one instrument: bars is the instrument's
\* daily history, m0 / m1 the kind of answer to the request for the target
\* month and for the month before, ind the outcome of the industry lookup.
MonthResponse(x, m) ==
    [kind |-> IF m = 0 THEN x.m0 ELSE x.m1,
     rows |-> SelectSeq(x.bars,
                 LAMBDA b : IF m = 0 THEN b.date >= FirstDayOfTargetMonth
                            ELSE b.date < FirstDayOfTargetMonth)]

\* lines 247-257: the merged frame, or <<>> when fewer than 20 rows are left
\* before or after the cut at target_date
MergedFrame(df_all) ==
    LET cat == IF Len(df_all) = 1 THEN df_all[1] ELSE df_all[1] \o df_all[2]
        df == SortByDate(DropDuplicates(cat))
        cut == SelectSeq(df, LAMBDA b : b.date <= target_date)
    IN IF Len(df) < MinRows THEN <<>>
       ELSE IF Len(cut) < MinRows THEN <<>>
       ELSE cut

\* lines 229-257 of process_stock: exc when a history request lets an
\* exception escape (after hcalls requests), otherwise the frame the
\* indicators are computed on, <<>> when process_stock returns None first
HistoryFrame(x) ==
    LET r0 == fetch_tpex_history(MonthResponse(x, 0))
        r1 == fetch_tpex_history(MonthResponse(x, 1))
        df_all == (IF r0.none THEN <<>> ELSE <<r0.df>>) \o
                  (IF r1.none THEN <<>> ELSE <<r1.df>>)
    IN IF r0.exc THEN [exc |-> TRUE, hcalls |-> 1, df |-> <<>>]
       ELSE IF r1.exc THEN [exc |-> TRUE, hcalls |-> 2, df |-> <<>>]
       ELSE IF df_all = <<>> THEN [exc |-> FALSE, hcalls |-> 2, df |-> <<>>]
       ELSE [exc |-> FALSE, hcalls |-> 2, df |-> MergedFrame(df_all)]

\* lines 259-378 of process_stock on the frame df with the rules fired
OutputData(stock_info, x, df, rules) ==
    LET latest == IndicatorRow(df, Len(df))
        info == fetch_industry_chain_info(x.ind)
    IN IF VolumeTooLow(latest) \/ rules = <<>>
       THEN [kind |-> "none", row |-> <<>>, hcalls |-> 2, icalls |-> 0]
       ELSE [kind |-> "row",
             row |-> [stock_id |-> stock_info,
                      close_price |-> Format2f(latest.close, 100),
                      conditions_met |->
                          StrJoin(<<ChComma, ChSpace>>,
                                  [k \in 1..Len(rules) |-> RuleLabel(rules[k])]),
                      industry |-> info.industry,
                      industry_chain |-> info.industry_chain,
                      ma10_minus_ma5 |-> GapPct(latest),
                      volume_multiplier |-> volume_multiplier(df, rules)],
             hcalls |-> 2, icalls |-> 1]

\* The body of process_stock for the provider answers x (lines 229-378).
\* kind is "raise" when an exception leaves the function, "none" when it
\* returns None and "row" when it returns output_data; hcalls / icalls
\* count the history and industry requests made.
Pipeline(stock_info, x) ==
    The({ IF h.exc
          THEN [kind |-> "raise", row |-> <<>>, hcalls |-> h.hcalls, icalls |-> 0]
          ELSE IF h.df = <<>>
          THEN [kind |-> "none", row |-> <<>>, hcalls |-> h.hcalls, icalls |-> 0]
          ELSE The({OutputData(stock_info, x, h.df, rules) :
                        rules \in {conditions_met(h.df)}}) :
          h \in {HistoryFrame(x)} })

\* ----------------------------------------------------- provider histories
Rep(n, x) == [k \in 1..n |-> x]

\* a daily history from its closes, the opens of its last three sessions
\* (earlier sessions open at their close), its volumes and the RSI of its
\* last two sessions
Bars(cl, opTail, vo, rsPrev, rsLast) ==
    LET n == Len(cl)
    IN [k \in 1..n |->
          [date |-> k, close |-> cl[k],
           open |-> IF k > n - 3 THEN opTail[k - (n - 3)] ELSE cl[k],
           vol |-> vo[k],
           rsi |-> IF k = n THEN rsLast ELSE IF k = n - 1 THEN rsPrev ELSE 5000]]

\* closes: a decline, ma5 back above ma10, both below ma20
\* (ma5 105.00, ma10 104.00, ma20 108.00, ma5 one day ago 104.50)
ClosesCross(d14, d15) ==
    Rep(13, 11200) \o <<d14, d15>> \o <<10187, 10188, 10187, 10188, 10750>>
    \o Rep(4, 10375) \o <<11000>>

\* closes: ma5 100.40 < ma10 100.70 < ma20 105.35, ma5 one day ago 100.20
ClosesConverge == Rep(15, 11000) \o Rep(5, 10100) \o Rep(4, 10000) \o <<10200>>

\* closes: ma5 110.00 above ma20 102.50
ClosesUp == Rep(20, 10000) \o Rep(5, 11000)

ClosesFlat == Rep(25, 10000)

H_Scenario == Bars(ClosesCross(11200, 11200), <<10375, 10375, 10000>>,
                   Rep(20, 400) \o Rep(4, 225) \o <<600>>, 5000, 5200)

H_ScenarioCrossover == Bars(ClosesCross(10800, 11600), <<10375, 10375, 10000>>,
                            Rep(20, 400) \o Rep(4, 225) \o <<600>>, 5000, 5200)

H_Rule1 == Bars(ClosesConverge, <<10000, 10000, 10000>>,
                Rep(24, 100) \o <<200>>, 5000, 5200)

H_Rule1Vol199 == Bars(ClosesConverge, <<10000, 10000, 10000>>,
                      Rep(24, 100) \o <<199>>, 5000, 5200)

H_Rule2 == Bars(ClosesConverge, <<10000, 10000, 10000>>,
                Rep(24, 100) \o <<200>>, 4000, 4500)

H_Rule1Twice == Bars(ClosesConverge, <<10000, 10000, 10000>>,
                     Rep(24, 75) \o <<200>>, 5000, 5200)

\* a history whose volume column carries a negative entry (the column is
\* parsed by pd.to_numeric and never range-checked)
H_Rule1Tenfold == Bars(ClosesConverge, <<10000, 10000, 10000>>,
                       Rep(20, 50) \o <<50, 50, 50, -650, 1000>>, 5000, 5200)

H_Rule5 == Bars(ClosesUp, <<11000, 11000, 11000>>,
                Rep(24, 20) \o <<200>>, 5000, 5200)

H_Rule5Vol199 == Bars(ClosesUp, <<11000, 11000, 11000>>,
                      Rep(24, 20) \o <<199>>, 5000, 5200)

H_Rule5Twelve == Bars(ClosesUp, <<11000, 11000, 11000>>,
                      Rep(20, 50) \o <<50, 50, 50, -500, 600>>, 5000, 5200)

H_Rule5NineHalf == Bars(ClosesUp, <<11000, 11000, 11000>>,
                        Rep(20, 50) \o <<50, 50, 50, -600, 950>>, 5000, 5200)

\* H_Rule1 followed by a session dated after target_date
H_Rule1Saturday ==
    H_Rule1 \o <<[date |-> 26, close |-> 12000, open |-> 10000, vol |-> 5000, rsi |-> 9000]>>

H_Flat == Bars(ClosesFlat, <<10000, 10000, 10000>>, Rep(25, 300), 5000, 5000)

AllOk(bars) == [bars |-> bars, m0 |-> "ok", m1 |-> "ok", ind |-> "ok"]

\* the answers the provider may give for an instrument
InputTable ==
    << AllOk(H_Scenario), AllOk(H_ScenarioCrossover),
       AllOk(H_Rule1), AllOk(H_Rule1Vol199), AllOk(H_Rule2),
       AllOk(H_Rule1Twice), AllOk(H_Rule1Tenfold),
       AllOk(H_Rule5), AllOk(H_Rule5Vol199),
       AllOk(H_Rule5Twelve), AllOk(H_Rule5NineHalf),
       AllOk(H_Flat), AllOk(H_Rule1Saturday),
       [bars |-> H_Rule1, m0 |-> "ok", m1 |-> "ok", ind |-> "fail"],
       [bars |-> H_Rule1, m0 |-> "timeout", m1 |-> "ok", ind |-> "ok"],
       [bars |-> H_Rule1, m0 |-> "ok", m1 |-> "stat_fail", ind |-> "ok"],
       [bars |-> H_Rule1, m0 |-> "empty", m1 |-> "missing_fields", ind |-> "ok"],
       [bars |-> H_Rule1, m0 |-> "no_tables", m1 |-> "ok", ind |-> "ok"],
       [bars |-> H_Rule1, m0 |-> "ok", m1 |-> "no_tables", ind |-> "ok"] >>

Inputs == DOMAIN InputTable

\* the sequence of F(k) for every provider answer k, computed once
Tabulate(F(_)) ==
    LET G[k \in 0..Len(InputTable)] ==
            IF k = 0 THEN <<>> ELSE Append(G[k - 1], F(k))
    IN G[Len(InputTable)]

\* the pipeline's outcome for every provider answer (the stock code is
\* filled in by the call)
PipelineTable == Tabulate(LAMBDA k : Pipeline(0, InputTable[k]))

\* --------------------------------------------------------------- roster
\* What the provider answers to the roster request: "ok" with the table's
\* stock codes (0 stands for a null or empty code), "no_tables" for a body
\* without tables, "error" for any failure raised while fetching or parsing.
RosterResponses ==
    {[kind |-> "error", rows |-> <<>>], [kind |-> "no_tables", rows |-> <<>>]}
    \cup {[kind |-> "ok", rows |-> [k \in 1..n |-> k]] : n \in 0..MaxRoster}
    \cup {[kind |-> "ok", rows |-> [k \in 1..n |-> IF k = 1 THEN 0 ELSE k]] :
             n \in 1..MaxRoster}

\* fetch_tpex_stock_list(): none when None is returned, else the codes kept
fetch_tpex_stock_list(resp) ==
    IF resp.kind = "ok"
    THEN [none |-> FALSE, rows |-> SelectSeq(resp.rows, LAMBDA c : c # 0)]
    ELSE [none |-> TRUE, rows |-> <<>>]

\* the abort test without the emptiness check
RosterUnusable_NoneOnly(df) == df.none

\* line 216: stock_df is None or stock_df.empty
RosterUnusable(df) == df.none \/ df.rows = <<>>

\* ------------------------------------------------- partition, sort, emit
\* the label test looking for the rule-4 label
IsCondition5_Label4(r) == StrContains(r.conditions_met, RuleLabel(4))

\* line 390: "label of rule 5" in r.get("conditions_met", "")
IsCondition5(r) == StrContains(r.conditions_met, RuleLabel(5))

\* lines 385-393 over pre_filtered_results (none marks a None entry)
Partition(results) ==
    LET rows == [k \in 1..Len(SelectSeq(results, LAMBDA r : r.kind = "row")) |->
                    SelectSeq(results, LAMBDA r : r.kind = "row")[k].row]
    IN [condition5_stocks |-> SelectSeq(rows, IsCondition5),
        other_stocks |-> SelectSeq(rows, LAMBDA r : ~IsCondition5(r))]

\* lines 409-413 / 430-434: the columns written
Columns(r) ==
    [stock_id |-> r.stock_id, close_price |-> r.close_price,
     volume_multiplier |-> r.volume_multiplier,
     conditions_met |-> r.conditions_met,
     industry |-> r.industry, industry_chain |-> r.industry_chain]

NotWritten == [written |-> FALSE, placeholder |-> FALSE, rows |-> <<>>]

\* one CSV file: the header line, then the rows or the placeholder line
WriteTable(sorted) ==
    IF sorted = <<>>
    THEN [written |-> TRUE, placeholder |-> TRUE, rows |-> <<>>]
    ELSE [written |-> TRUE, placeholder |-> FALSE,
          rows |-> [k \in 1..Len(sorted) |-> Columns(sorted[k])]]

\* lines 385-445: both files from the collected results
Tables(results) ==
    LET part == Partition(results)
    IN [others |-> WriteTable(StableSort("others", part.other_stocks)),
        condition5 |-> WriteTable(StableSort("condition5", part.condition5_stocks))]

\* -------------------------------------------------------------- the run
VARIABLES
    pc,                   \* where analyze_tpex_stocks is
    roster,               \* the provider's answer to the roster request
    stock_df,             \* the roster frame
    fut,                  \* state of the future of every submitted task
    hist,                 \* the provider answers each task received (0: none yet)
    ret,                  \* what each finished process_stock call returned
    yielded,              \* the tasks whose result executor.map has yielded
    pre_filtered_results, \* the list built from executor.map
    files,                \* the two output files
    history_calls,        \* monthly history requests made
    industry_calls,       \* industry lookups made
    out_of_order,         \* a task finished before one submitted earlier
    outcome               \* PipelineTable, computed once when the run starts

vars == <<pc, roster, stock_df, fut, hist, ret, yielded, pre_filtered_results,
          files, history_calls, industry_calls, out_of_order, outcome>>

NoRoster == [kind |-> "unset", rows |-> <<>>]
NoReturn == [kind |-> "unset", row |-> <<>>, hcalls |-> 0, icalls |-> 0]

Tasks == DOMAIN fut

\* process_stock(stock_info) when the provider answers InputTable[k]
process_stock(stock_info, k) ==
    LET r == outcome[k]
    IN IF r.kind = "row" THEN [r EXCEPT !.row.stock_id = stock_info] ELSE r

Init ==
    /\ pc = "start"
    /\ roster = NoRoster
    /\ stock_df = [none |-> TRUE, rows |-> <<>>]
    /\ fut = <<>>
    /\ hist = <<>>
    /\ ret = <<>>
    /\ yielded = <<>>
    /\ pre_filtered_results = <<>>
    /\ files = [others |-> NotWritten, condition5 |-> NotWritten]
    /\ history_calls = 0
    /\ industry_calls = 0
    /\ out_of_order = FALSE
    /\ outcome = PipelineTable

\* lines 215-225 and 380-383: the roster is fetched; the run aborts, or one
\* task per instrument is submitted to the pool
FetchRoster(resp) ==
    /\ pc = "start"
    /\ roster' = resp
    /\ LET df == fetch_tpex_stock_list(resp)
           n == Len(df.rows)
       IN /\ stock_df' = df
          /\ IF RosterUnusable(df)
             THEN /\ pc' = "aborted"
                  /\ UNCHANGED <<fut, hist, ret>>
             ELSE /\ pc' = "pool"
                  /\ fut' = [k \in 1..n |-> "pending"]
                  /\ hist' = [k \in 1..n |-> 0]
                  /\ ret' = [k \in 1..n |-> NoReturn]
    /\ UNCHANGED <<yielded, pre_filtered_results, files, history_calls,
                   industry_calls, out_of_order, outcome>>

\* a free worker takes the oldest queued task
StartTask(i) ==
    /\ pc = "pool"
    /\ i \in Tasks
    /\ fut[i] = "pending"
    /\ \A j \in Tasks : j < i => fut[j] # "pending"
    /\ Cardinality({j \in Tasks : fut[j] = "running"}) < PoolSize
    /\ fut' = [fut EXCEPT ![i] = "running"]
    /\ UNCHANGED <<pc, roster, stock_df, hist, ret, yielded, pre_filtered_results,
                   files, history_calls, industry_calls, out_of_order, outcome>>

\* process_stock runs to its end on a worker, the provider answering k
FinishTask(i, k) ==
    /\ pc \in {"pool", "raised"}
    /\ i \in Tasks
    /\ fut[i] = "running"
    /\ LET r == process_stock(stock_df.rows[i], k)
       IN /\ ret' = [ret EXCEPT ![i] = r]
          /\ fut' = [fut EXCEPT ![i] = IF r.kind = "raise" THEN "raised" ELSE "done"]
          /\ history_calls' = history_calls + r.hcalls
          /\ industry_calls' = industry_calls + r.icalls
    /\ hist' = [hist EXCEPT ![i] = k]
    /\ out_of_order' = (out_of_order \/ \E j \in Tasks : j < i /\ fut[j] = "running")
    /\ UNCHANGED <<pc, roster, stock_df, yielded, pre_filtered_results, files,
                   outcome>>

\* the iterator yielding whichever finished task has the highest position
NextToYield_Completed(f, got) ==
    LET ready == {j \in DOMAIN f : f[j] \in {"done", "raised"}
                                   /\ \A p \in 1..Len(got) : got[p] # j}
    IN IF ready = {} THEN Len(got) + 1
       ELSE CHOOSE j \in ready : \A q \in ready : q <= j

\* executor.map yields the results in the order the tasks were submitted
NextToYield(f, got) == Len(got) + 1

\* list(executor.map(...)) receives the next result
CollectResult ==
    /\ pc = "pool"
    /\ LET i == NextToYield(fut, yielded)
       IN /\ i \in Tasks
          /\ fut[i] = "done"
          /\ yielded' = Append(yielded, i)
          /\ pre_filtered_results' = Append(pre_filtered_results, ret[i])
    /\ UNCHANGED <<pc, roster, stock_df, fut, hist, ret, files,
                   history_calls, industry_calls, out_of_order, outcome>>

\* the next result is an exception: it leaves executor.map, the queued
\* tasks are cancelled and analyze_tpex_stocks is left by the exception
PropagateException ==
    /\ pc = "pool"
    /\ LET i == NextToYield(fut, yielded)
       IN /\ i \in Tasks
          /\ fut[i] = "raised"
    /\ pc' = "raised"
    /\ fut' = [j \in Tasks |-> IF fut[j] = "pending" THEN "cancelled" ELSE fut[j]]
    /\ UNCHANGED <<roster, stock_df, hist, ret, yielded, pre_filtered_results,
                   files, history_calls, industry_calls, out_of_order, outcome>>

\* lines 385-448: every result is in; partition, sort, write both files
Emit ==
    /\ pc = "pool"
    /\ Len(yielded) = Len(stock_df.rows)
    /\ files' = Tables(pre_filtered_results)
    /\ pc' = "done"
    /\ UNCHANGED <<roster, stock_df, fut, hist, ret, yielded, pre_filtered_results,
                   history_calls, industry_calls, out_of_order, outcome>>

Next ==
    \/ \E resp \in RosterResponses : FetchRoster(resp)
    \/ \E i \in 1..MaxRoster : StartTask(i)
    \/ \E i \in 1..MaxRoster : \E k \in Inputs : FinishTask(i, k)
    \/ CollectResult
    \/ PropagateException
    \/ Emit

Spec == Init /\ [][Next]_vars

\* the pool runs every queued task, every request returns (each has a
\* timeout), and the main thread keeps consuming results
FairSpec ==
    /\ Spec
    /\ WF_vars(\E i \in 1..MaxRoster : StartTask(i))
    /\ WF_vars(\E i \in 1..MaxRoster : \E k \in Inputs : FinishTask(i, k))
    /\ WF_vars(CollectResult)
    /\ WF_vars(PropagateException)
    /\ WF_vars(Emit)

\* =============================================================== claims
\* what the pipeline computed for every provider answer
FrameTable == Tabulate(LAMBDA k : HistoryFrame(InputTable[k]))

HasFrame(k) == ~FrameTable[k].exc /\ FrameTable[k].df # <<>>

LatestTable ==
    Tabulate(LAMBDA k : IF HasFrame(k)
                        THEN IndicatorRow(FrameTable[k].df, Len(FrameTable[k].df))
                        ELSE IndicatorRow(H_Flat, 1))

PrevTable ==
    Tabulate(LAMBDA k : IF HasFrame(k)
                        THEN IndicatorRow(FrameTable[k].df, Len(FrameTable[k].df) - 1)
                        ELSE IndicatorRow(H_Flat, 1))

SignalATable ==
    Tabulate(LAMBDA k : HasFrame(k) /\ volume_condition_1_4(FrameTable[k].df).met)

SignalBTable ==
    Tabulate(LAMBDA k : HasFrame(k) /\ volume_condition_5(LatestTable[k]).met)

\* the rules whose predicate holds for provider answer k
FiredTable ==
    Tabulate(LAMBDA k :
        IF ~HasFrame(k) THEN {}
        ELSE {r \in 1..5 :
                CASE r = 1 -> Rule1(LatestTable[k], PrevTable[k], SignalATable[k])
                  [] r = 2 -> Rule2(LatestTable[k], PrevTable[k], SignalATable[k])
                  [] r = 3 -> Rule3(LatestTable[k], PrevTable[k], SignalATable[k])
                  [] r = 4 -> Rule4(LatestTable[k], PrevTable[k], SignalATable[k])
                  [] r = 5 -> Rule5(LatestTable[k], SignalBTable[k])})

Finished(i) == i \in Tasks /\ hist[i] # 0

\* the number a formatted multiplier denotes, in hundredths
Hundredths(str) ==
    LET F[k \in 0..Len(str)] ==
            IF k = 0 THEN 0
            ELSE IF str[k] = ChDot THEN F[k - 1]
            ELSE F[k - 1] * 10 + (str[k] - ChZero)
    IN F[Len(str)]

\* ma_gap_pct of the instrument a written row belongs to
GapOfRow(row) ==
    ret[CHOOSE i \in Tasks : stock_df.rows[i] = row.stock_id].row.ma10_minus_ma5

\* C1: whichever way a step of an instrument's pipeline fails (a history
\* request failing for any reason, too few rows, a failed industry lookup),
\* the instrument's task ends without an exception and the run is never
\* left by an exception.
StepFailed(k) ==
    \/ InputTable[k].m0 # "ok"
    \/ InputTable[k].m1 # "ok"
    \/ InputTable[k].ind # "ok"

C1_FailureIsolated ==
    /\ pc # "raised"
    /\ \A i \in Tasks : (Finished(i) /\ StepFailed(hist[i])) => fut[i] = "done"

\* C2: once the roster has been fetched and is not empty, the run
\* eventually writes both output files.
C2_BothTablesWritten ==
    (pc = "pool") ~> (pc = "done" /\ files.others.written /\ files.condition5.written)

\* C3: when the roster request fails or yields no instrument, the run
\* aborts: no task is submitted, no history or industry request is made and
\* neither file is written.
RosterFailedOrEmpty ==
    \/ roster.kind \in {"error", "no_tables"}
    \/ roster.kind = "ok" /\ \A p \in 1..Len(roster.rows) : roster.rows[p] = 0

C3_AbortOnRosterFailure ==
    (pc # "start" /\ RosterFailedOrEmpty) =>
        /\ pc = "aborted"
        /\ fut = <<>>
        /\ history_calls = 0 /\ industry_calls = 0
        /\ ~files.others.written /\ ~files.condition5.written

C3_Witness == pc = "aborted" /\ roster.kind = "error"

\* C4: in the written files, every result whose fired rules include rule 5
\* is a row of the condition-5 file only, every other result is a row of
\* the others file only, and the files hold no other rows.
Occurrences(table, id) ==
    Cardinality({p \in 1..Len(table.rows) : table.rows[p].stock_id = id})

C4_Partition ==
    pc = "done" =>
        /\ \A i \in Tasks :
              ret[i].kind = "row" =>
                  IF 5 \in FiredTable[hist[i]]
                  THEN /\ Occurrences(files.condition5, stock_df.rows[i]) = 1
                       /\ Occurrences(files.others, stock_df.rows[i]) = 0
                  ELSE /\ Occurrences(files.condition5, stock_df.rows[i]) = 0
                       /\ Occurrences(files.others, stock_df.rows[i]) = 1
        /\ Len(files.condition5.rows) + Len(files.others.rows)
              = Cardinality({i \in Tasks : ret[i].kind = "row"})

C4_Witness ==
    /\ pc = "done"
    /\ Len(files.condition5.rows) >= 1
    /\ Len(files.others.rows) >= 1

\* C5: adjacent rows of the others file are in ascending order of the gap
\* and, at equal gap, in descending order of the volume multiplier taken as
\* a number.
C5_OthersSorted ==
    pc = "done" =>
        \A p \in 1..(Len(files.others.rows) - 1) :
            LET a == files.others.rows[p]
                b == files.others.rows[p + 1]
            IN /\ ~GapLT(GapOfRow(b), GapOfRow(a))
               /\ GapEQ(GapOfRow(a), GapOfRow(b)) =>
                      Hundredths(a.volume_multiplier) >= Hundredths(b.volume_multiplier)

\* C6: adjacent rows of the condition-5 file are in descending order of
\* the volume multiplier taken as a number.
C6_Condition5Sorted ==
    pc = "done" =>
        \A p \in 1..(Len(files.condition5.rows) - 1) :
            Hundredths(files.condition5.rows[p].volume_multiplier)
                >= Hundredths(files.condition5.rows[p + 1].volume_multiplier)

\* C7: an instrument whose latest volume is below 200 lots returns no
\* result whatever else holds; with a latest volume of exactly 200 and the
\* other conditions of rule 1 it returns a result that records rule 1.
C7_MinimumVolumeGate ==
    \A i \in Tasks :
        (Finished(i) /\ HasFrame(hist[i])) =>
            LET latest == LatestTable[hist[i]]
                prev == PrevTable[hist[i]]
            IN /\ latest.vol < MinVolume => ret[i].kind = "none"
               /\ ( /\ latest.vol = MinVolume
                    /\ SignalATable[hist[i]]
                    /\ GapInBand(GapPct(latest))
                    /\ latest.MA5 < latest.MA10 /\ latest.MA10 < latest.MA20
                    /\ latest.MA5 > prev.MA5
                    /\ latest.RSI >= 4900 )
                  => /\ ret[i].kind = "row"
                     /\ StrContains(ret[i].row.conditions_met, RuleLabel(1))

C7_Witness ==
    /\ \E i \in Tasks :
          /\ Finished(i) /\ HasFrame(hist[i])
          /\ LatestTable[hist[i]].vol = MinVolume - 1
          /\ SignalBTable[hist[i]]
          /\ LatestTable[hist[i]].MA5 > LatestTable[hist[i]].MA20
          /\ ret[i].kind = "none"
    /\ \E i \in Tasks :
          /\ Finished(i) /\ HasFrame(hist[i])
          /\ LatestTable[hist[i]].vol = MinVolume
          /\ ret[i].kind = "row"
          /\ StrContains(ret[i].row.conditions_met, RuleLabel(1))

\* the 25-session series of the scenario
IsScenario(k) ==
    /\ HasFrame(k)
    /\ Len(FrameTable[k].df) = 25
    /\ LatestTable[k] = [close |-> 11000, open |-> 10000, vol |-> 600,
                         MA5 |-> 10500, MA10 |-> 10400, MA20 |-> 10800,
                         Volume_MA5 |-> 300, Volume_MA10 |-> 350, RSI |-> 5200]
    /\ PrevTable[k].MA5 = 10450

Str171 == Format2f(171, 100)

\* C8 as stated: the scenario's series returns exactly rule 1 with the
\* multiplier formatted 1.71.
C8_ScenarioAsStated ==
    \A i \in Tasks :
        (Finished(i) /\ IsScenario(hist[i])) =>
            /\ ret[i].kind = "row"
            /\ ret[i].row.conditions_met = RuleLabel(1)
            /\ ret[i].row.volume_multiplier = Str171

\* C8 amended: the scenario's series (ma5 105 above ma10 104) returns
\* exactly rule 4, together with rule 3 when the ma5 of one day ago is not
\* above the ma10 of one day ago, with the multiplier formatted 1.71.
C8_ScenarioAmended ==
    \A i \in Tasks :
        (Finished(i) /\ IsScenario(hist[i])) =>
            /\ ret[i].kind = "row"
            /\ ret[i].row.conditions_met =
                  IF PrevTable[hist[i]].MA5 <= PrevTable[hist[i]].MA10
                  THEN RuleLabel(3) \o <<ChComma, ChSpace>> \o RuleLabel(4)
                  ELSE RuleLabel(4)
            /\ ret[i].row.volume_multiplier = Str171

C8_Witness ==
    /\ \E i \in Tasks :
          /\ Finished(i) /\ IsScenario(hist[i]) /\ ret[i].kind = "row"
          /\ PrevTable[hist[i]].MA5 <= PrevTable[hist[i]].MA10
    /\ \E i \in Tasks :
          /\ Finished(i) /\ IsScenario(hist[i]) /\ ret[i].kind = "row"
          /\ PrevTable[hist[i]].MA5 > PrevTable[hist[i]].MA10

\* C9 as stated: the five rules fire in any combination, so a pipeline
\* that is still running can end, for every subset of the five rules, with
\* a result that records exactly that subset.
C9_AnyCombination ==
    \A i \in Tasks :
        fut[i] = "running" =>
            \A S \in SUBSET (1..5) :
                \E k \in Inputs :
                    /\ HasFrame(k)
                    /\ FiredTable[k] = S
                    /\ S # {} =>
                          /\ process_stock(stock_df.rows[i], k).kind = "row"
                          /\ \A r \in 1..5 :
                                StrContains(process_stock(stock_df.rows[i], k).row.conditions_met,
                                            RuleLabel(r)) <=> r \in S

\* C9 amended: rules 1 and 2 exclude each other and rules 3 and 4, rule 3
\* fires only with rule 4, and rule 5 fires only alone; the result records
\* exactly the rules that fired, and there is no result only when no rule
\* fired or the latest volume is below the minimum.
AllowedCombinations == {{}, {1}, {2}, {4}, {3, 4}, {5}}

C9_RuleCombinations ==
    \A i \in Tasks :
        (Finished(i) /\ HasFrame(hist[i])) =>
            /\ FiredTable[hist[i]] \in AllowedCombinations
            /\ ret[i].kind = "row" =>
                  \A r \in 1..5 :
                      StrContains(ret[i].row.conditions_met, RuleLabel(r))
                          <=> r \in FiredTable[hist[i]]
            /\ ret[i].kind = "none" =>
                  \/ FiredTable[hist[i]] = {}
                  \/ LatestTable[hist[i]].vol < MinVolume

C9_Witness ==
    /\ \E i \in Tasks :
          /\ Finished(i) /\ ret[i].kind = "row" /\ FiredTable[hist[i]] = {3, 4}
    /\ \E i \in Tasks :
          /\ Finished(i) /\ ret[i].kind = "row" /\ FiredTable[hist[i]] = {5}
          /\ SignalATable[hist[i]] = FALSE

\* C10: the files are written only after every task has finished, and
\* they are the files the roster order and the provider answers determine,
\* whatever order the tasks ran and finished in.
C10_OrderIndependent ==
    (files.others.written \/ files.condition5.written) =>
        /\ \A i \in Tasks : fut[i] = "done"
        /\ files = Tables([i \in 1..Len(stock_df.rows) |->
                              process_stock(stock_df.rows[i], hist[i])])

C10_Witness ==
    /\ pc = "done"
    /\ out_of_order
    /\ \E p \in 1..(Len(files.others.rows) - 1) :
          /\ files.others.rows[p].volume_multiplier
                = files.others.rows[p + 1].volume_multiplier
          /\ GapEQ(GapOfRow(files.others.rows[p]), GapOfRow(files.others.rows[p + 1]))

====
